---- MODULE Spec2Model ----
(***************************************************************************)
(* The array-value engine of uiua, src/src/algorithm.rs: the Value         *)
(* dispatch layer (len, rank, shape, range, reverse, join) and the free    *)
(* array algorithms (range, reverse, force_length, sort_array,             *)
(* merge_sort_chunks).                                                      *)
(*                                                                         *)
(* A call that panics (a failed bounds check, a division by zero, a failed *)
(* assert_ne!) yields the outcome "panic" and leaves the buffer as it was  *)
(* when the panic was raised; an unsafe block whose precondition is broken *)
(* yields the outcome "ub".                                                *)
(***************************************************************************)
EXTENDS Integers, Sequences, FiniteSets, TLC

VARIABLES
    v,       \* Value machine: the receiver Value (self)
    prev,    \* Value machine: the receiver before the last operation
    op,      \* Value machine: the last operation, [name, other]
    st,      \* Value machine: outcome of the last operation: "ok", "err", "panic", "ub"
    res,     \* Value machine: what the last operation returned
    base,    \* Value machine: the receiver before the current run of reverse calls
    streak,  \* Value machine: number of reverse calls in the current run (0..2)
    ashape,  \* algorithms: the shape argument
    adata,   \* algorithms: the data buffer (a slice or Vec of T)
    aorig,   \* algorithms: the buffer before the last call
    acmp,    \* algorithms: the comparator of the last sort_array call
    alen,    \* algorithms: the target length of the last force_length call
    apc,     \* algorithms: the last call: "init", "range", "reverse", ...
    ast      \* algorithms: outcome of the last call: "ok", "panic", "ub"

vvars == <<v, prev, op, st, res, base, streak>>
avars == <<ashape, adata, aorig, acmp, alen, apc, ast>>
vars == <<v, prev, op, st, res, base, streak, ashape, adata,
          aorig, acmp, alen, apc, ast>>

(***************************************************************************)
(* Bounds of the model.                                                    *)
(***************************************************************************)
UnitsPerOne == 8   \* fixed-point grid: multiples of f64::EPSILON per 1.0
MaxRank == 3       \* longest shape drawn as an input
MaxDim == 3        \* largest axis length drawn as an input
MaxBuf == 6        \* largest buffer drawn as an input of the algorithms
MaxTarget == 5     \* largest target length given to force_length
MaxVRank == 2      \* Value machine: longest shape of an input Array
MaxVDim == 3       \* Value machine: largest axis length of an input Array
MaxVBuf == 4       \* Value machine: largest buffer of an input Array
MaxJoinBuf == 4    \* Value machine: join is called while the receiver holds at most this many elements

(***************************************************************************)
(* f64, as far as Value::range reads it: a NaN, or a finite number held as *)
(* a multiple of f64::EPSILON (m = UnitsPerOne stands for 1.0).            *)
(***************************************************************************)
Eps == 1
One == UnitsPerOne * Eps

F(m) == [nan |-> FALSE, m |-> m]
NaN == [nan |-> TRUE, m |-> 0]

Abs(x) == IF x < 0 THEN 0 - x ELSE x

\* f64::round: to the nearest integer, halves away from zero; NaN stays NaN
f64_round(f) ==
    IF f.nan THEN NaN
    ELSE LET q == (Abs(f.m) + (One \div 2)) \div One
         IN F(IF f.m < 0 THEN 0 - (q * One) ELSE q * One)

f64_sub(a, b) == IF a.nan \/ b.nan THEN NaN ELSE F(a.m - b.m)
f64_abs(a) == IF a.nan THEN NaN ELSE F(Abs(a.m))
\* comparisons with a NaN are false
f64_gt(a, b) == ~a.nan /\ ~b.nan /\ a.m > b.m
f64_le(a, b) == ~a.nan /\ ~b.nan /\ a.m <= b.m
\* `as usize`: saturating, NaN becomes 0, the fraction is dropped
f64_as_usize(f) == IF f.nan \/ f.m < 0 THEN 0 ELSE f.m \div One
\* `i as f64`
usize_as_f64(i) == F(i * One)

(***************************************************************************)
(* Values: a tagged variant.                                               *)
(***************************************************************************)
NumValue(f) == [tag |-> "Num", num |-> f, ch |-> 0, shape |-> <<>>, data |-> <<>>]
CharValue(c) == [tag |-> "Char", num |-> F(0), ch |-> c, shape |-> <<>>, data |-> <<>>]
UnitValue == [tag |-> "Unit", num |-> F(0), ch |-> 0, shape |-> <<>>, data |-> <<>>]
ArrayValue(shape, data) ==
    [tag |-> "Array", num |-> F(0), ch |-> 0, shape |-> shape, data |-> data]

is_array(x) == x.tag = "Array"
raw_ty(x) == x.tag

RECURSIVE Product(_)
Product(s) == IF s = <<>> THEN 1 ELSE Head(s) * Product(Tail(s))

\* shape[i..] for a 0-based i
Skip(s, i) == SubSeq(s, i + 1, Len(s))

\* Array::from(Vec<f64>): a rank-1 array of numbers
ArrayFromF64s(cell) ==
    ArrayValue(<<Len(cell)>>, [j \in 1..Len(cell) |-> NumValue(cell[j])])

(***************************************************************************)
(* range(shape)                                                            *)
(***************************************************************************)
\* range_cell without the reduction modulo products[j]
range_cell_no_mod(shape, i) ==
    LET moduli == [j \in 1..Len(shape) |-> Product(Skip(shape, j))]
    IN ArrayFromF64s([j \in 1..Len(shape) |-> usize_as_f64(i \div moduli[j])])

range_cell(shape, i) ==
    LET products == [j \in 1..Len(shape) |-> Product(Skip(shape, j - 1))]
        moduli == [j \in 1..Len(shape) |-> Product(Skip(shape, j))]
    IN ArrayFromF64s([j \in 1..Len(shape) |->
                         usize_as_f64((i % products[j]) \div moduli[j])])

\* range with the loop ending one element early
range_one_short(shape) ==
    LET len == Product(shape)
    IN [k \in 1..(len - 1) |->
            IF Len(shape) <= 1 THEN NumValue(usize_as_f64(k - 1))
            ELSE range_cell(shape, k - 1)]

range(shape) ==
    LET len == Product(shape)
    IN [k \in 1..len |->
            IF Len(shape) <= 1 THEN NumValue(usize_as_f64(k - 1))
            ELSE range_cell(shape, k - 1)]

(***************************************************************************)
(* reverse(shape, data)                                                    *)
(***************************************************************************)
\* an exchange of the first element of each block instead of the whole blocks
swap_first_elements(data, left, right, count) ==
    [k \in 1..Len(data) |->
        IF k = left + 1 THEN data[right + 1]
        ELSE IF k = right + 1 THEN data[left + 1]
        ELSE data[k]]

\* ptr::swap_nonoverlapping(&mut data[left], &mut data[right], count)
swap_nonoverlapping(data, left, right, count) ==
    [k \in 1..Len(data) |->
        IF left < k /\ k <= left + count THEN data[k - left + right]
        ELSE IF right < k /\ k <= right + count THEN data[k - right + left]
        ELSE data[k]]

RECURSIVE reverse_loop(_, _, _, _)
reverse_loop(i, cells, cell_size, data) ==
    IF i >= cells \div 2 THEN [st |-> "ok", data |-> data]
    ELSE LET left == i * cell_size
             right == (cells - i - 1) * cell_size
         IN IF left >= Len(data) \/ right >= Len(data)
            THEN [st |-> "panic", data |-> data]
            ELSE IF left + cell_size > right \/ right + cell_size > Len(data)
            THEN [st |-> "ub", data |-> data]
            ELSE reverse_loop(i + 1, cells, cell_size,
                              swap_nonoverlapping(data, left, right, cell_size))

reverse(shape, data) ==
    IF shape = <<>> THEN [st |-> "ok", data |-> data]
    ELSE reverse_loop(0, shape[1], Product(Tail(shape)), data)

(***************************************************************************)
(* force_length(data, len)                                                 *)
(***************************************************************************)
RECURSIVE force_length_loop(_, _, _)
force_length_loop(data, len, i) ==
    IF ~(Len(data) < len) THEN [st |-> "ok", data |-> data]
    ELSE IF i >= Len(data) THEN [st |-> "panic", data |-> data]
    ELSE force_length_loop(Append(data, data[i + 1]), len, i + 1)

force_length(data, len) ==
    IF Len(data) < len THEN force_length_loop(data, len, 0)
    ELSE IF Len(data) > len THEN [st |-> "ok", data |-> SubSeq(data, 1, len)]
    ELSE [st |-> "ok", data |-> data]

(***************************************************************************)
(* sort_array(shape, data, cmp) and merge_sort_chunks(chunk_size, data,    *)
(* cmp). A comparator (CmpFn<T>) is named by a string.                     *)
(***************************************************************************)
Ord(x, y) == IF x < y THEN "Less" ELSE IF x > y THEN "Greater" ELSE "Equal"

\* the key a comparator of Values orders by
ValueKey(x) ==
    IF x.tag = "Num" THEN (IF x.num.nan THEN 0 ELSE x.num.m)
    ELSE IF x.tag = "Char" THEN 1000 + x.ch
    ELSE IF x.tag = "Array" THEN 2000 + Len(x.data)
    ELSE 3000

\* the comparators handed to sort_array: "ord" is the order of the integers,
\* "coarse" orders integers by their half (2k and 2k+1 compare Equal),
\* "value" orders Values by ValueKey
cmp_fn(cmp, a, b) ==
    IF cmp = "ord" THEN Ord(a, b)
    ELSE IF cmp = "coarse" THEN Ord(a \div 2, b \div 2)
    ELSE Ord(ValueKey(a), ValueKey(b))

\* lines 178-184: the ordering of two cells, first difference decides
RECURSIVE cell_ordering(_, _, _)
cell_ordering(cmp, l, r) ==
    IF l = <<>> \/ r = <<>> THEN "Equal"
    ELSE LET ordering == cmp_fn(cmp, Head(l), Head(r))
         IN IF ordering # "Equal" THEN ordering
            ELSE cell_ordering(cmp, Tail(l), Tail(r))

\* slice::chunks_exact(chunk_size): the whole chunks, a remainder is left out
chunks_exact(data, chunk_size) ==
    [k \in 1..(Len(data) \div chunk_size) |->
        SubSeq(data, (k - 1) * chunk_size + 1, k * chunk_size)]

\* a merge that takes the left-hand cell on a tie (only Greater takes the
\* right-hand one)
RECURSIVE merge_loop_left_on_ties(_, _, _, _)
merge_loop_left_on_ties(cmp, left, right, tmp) ==
    IF left # <<>> /\ right # <<>> THEN
        IF cell_ordering(cmp, Head(left), Head(right)) # "Greater"
        THEN merge_loop_left_on_ties(cmp, Tail(left), right, tmp \o Head(left))
        ELSE merge_loop_left_on_ties(cmp, left, Tail(right), tmp \o Head(right))
    ELSE IF left # <<>>
    THEN merge_loop_left_on_ties(cmp, Tail(left), right, tmp \o Head(left))
    ELSE IF right # <<>>
    THEN merge_loop_left_on_ties(cmp, left, Tail(right), tmp \o Head(right))
    ELSE tmp

\* lines 175-205: left and right are the chunks not yet taken
RECURSIVE merge_loop(_, _, _, _)
merge_loop(cmp, left, right, tmp) ==
    IF left # <<>> /\ right # <<>> THEN
        IF cell_ordering(cmp, Head(left), Head(right)) = "Less"
        THEN merge_loop(cmp, Tail(left), right, tmp \o Head(left))
        ELSE merge_loop(cmp, left, Tail(right), tmp \o Head(right))
    ELSE IF left # <<>> THEN merge_loop(cmp, Tail(left), right, tmp \o Head(left))
    ELSE IF right # <<>> THEN merge_loop(cmp, left, Tail(right), tmp \o Head(right))
    ELSE tmp

RECURSIVE merge_sort_chunks(_, _, _)
merge_sort_chunks(chunk_size, data, cmp) ==
    IF chunk_size = 0 THEN [st |-> "panic", data |-> data]
    ELSE LET cells == Len(data) \div chunk_size
         IN IF cells = 0 THEN [st |-> "panic", data |-> data]
            ELSE IF cells = 1 THEN [st |-> "ok", data |-> data]
            ELSE LET mid == cells \div 2
                     l == merge_sort_chunks(chunk_size,
                              SubSeq(data, 1, mid * chunk_size), cmp)
                     r == merge_sort_chunks(chunk_size,
                              SubSeq(data, mid * chunk_size + 1, Len(data)), cmp)
                     tmp == merge_loop(cmp, chunks_exact(l.data, chunk_size),
                                       chunks_exact(r.data, chunk_size), <<>>)
                 IN IF l.st # "ok" THEN [st |-> l.st, data |-> data]
                    ELSE IF r.st # "ok" THEN [st |-> r.st, data |-> l.data \o r.data]
                    ELSE IF Len(tmp) # Len(data)
                    THEN [st |-> "panic", data |-> l.data \o r.data]
                    ELSE [st |-> "ok", data |-> tmp]

sort_array(shape, data, cmp) ==
    IF shape = <<>> THEN [st |-> "ok", data |-> data]
    ELSE merge_sort_chunks(Product(Tail(shape)), data, cmp)

(***************************************************************************)
(* Array, as the spec describes it (its code is not among the sources): a  *)
(* shape and a buffer. An Array and the Value that owns it are the same    *)
(* record here.                                                            *)
(***************************************************************************)
Array_len(a) == IF a.shape = <<>> THEN 1 ELSE a.shape[1]
Array_rank(a) == Len(a.shape)
Array_shape(a) == a.shape
Array_is_numbers(a) == \A k \in 1..Len(a.data) : a.data[k].tag = "Num"
Array_numbers(a) == [k \in 1..Len(a.data) |-> a.data[k].num]
\* Array::from(Value) of a bare scalar: a rank-0 array holding it
ArrayFromValue(x) == IF is_array(x) THEN x ELSE ArrayValue(<<>>, <<x>>)
\* Array::from((shape, data))
ArrayFromShapeData(shape, data) == ArrayValue(shape, data)
\* Array::reverse delegates to reverse(shape, data)
Array_reverse(a) ==
    LET r == reverse(a.shape, a.data)
    IN [st |-> r.st, arr |-> ArrayValue(a.shape, r.data)]

MsgShapeMismatch == <<"Cannot", "join", "arrays", "of", "different", "shapes">>

\* Array::join: the cell shapes (shape[1..]) must agree unless a side has
\* length 0; the buffers are concatenated, self first
Array_join(a, b) ==
    LET cell_a == IF a.shape = <<>> THEN <<>> ELSE Tail(a.shape)
        cell_b == IF b.shape = <<>> THEN <<>> ELSE Tail(b.shape)
        reshaped(x) == IF x.shape = <<>> THEN ArrayValue(<<1>>, x.data) ELSE x
    IN IF Array_len(a) = 0 THEN [st |-> "ok", arr |-> reshaped(b), msg |-> <<>>]
       ELSE IF Array_len(b) = 0 THEN [st |-> "ok", arr |-> reshaped(a), msg |-> <<>>]
       ELSE IF cell_a # cell_b THEN [st |-> "err", arr |-> a, msg |-> MsgShapeMismatch]
       ELSE [st |-> "ok",
             arr |-> ArrayValue(<<Array_len(a) + Array_len(b)>> \o cell_a,
                                a.data \o b.data),
             msg |-> <<>>]

\* Value::default(), what mem::take leaves in the receiver
DefaultValue == UnitValue

(***************************************************************************)
(* impl Value                                                              *)
(***************************************************************************)
\* Value::len answering 0 for a bare scalar
Value_len_scalar_zero(x) == IF is_array(x) THEN Array_len(x) ELSE 0

Value_len(x) == IF is_array(x) THEN Array_len(x) ELSE 1
Value_rank(x) == IF is_array(x) THEN Array_rank(x) ELSE 0
Value_shape(x) == IF is_array(x) THEN Array_shape(x) ELSE <<>>

MsgRangeArray ==
    <<"Tried", "to", "make", "a", "range", "of", "an", "array", "with",
      "decimal", "or", "nonpositive", "numbers,", "but", "only", "natural",
      "numbers", "are", "allowed">>
MsgRangeNumber ==
    <<"Tried", "to", "make", "a", "range", "of", "decimal", "or",
      "nonpositive", "number,", "but", "only", "natural", "numbers", "are",
      "allowed">>
MsgRangeOther ==
    <<"Ranges", "can", "only", "be", "created", "from", "natural", "numbers">>

\* lines 41-42 and 58-59: the test that rejects a number
range_rejects(f) ==
    LET rounded == f64_round(f)
    IN f64_gt(f64_abs(f64_sub(f, rounded)), F(Eps)) \/ f64_le(rounded, F(0))

range_axis(f) == f64_as_usize(f64_round(f))

Value_range(x) ==
    IF raw_ty(x) = "Array" /\ Array_is_numbers(x) THEN
        LET nums == Array_numbers(x)
            shape == [k \in 1..Len(nums) |-> range_axis(nums[k])]
        IN IF \E k \in 1..Len(nums) : range_rejects(nums[k])
           THEN [st |-> "err", arr |-> UnitValue, msg |-> MsgRangeArray]
           ELSE [st |-> "ok", arr |-> ArrayFromShapeData(shape, range(shape)),
                 msg |-> <<>>]
    ELSE IF raw_ty(x) = "Num" THEN
        LET shape == <<range_axis(x.num)>>
        IN IF range_rejects(x.num)
           THEN [st |-> "err", arr |-> UnitValue, msg |-> MsgRangeNumber]
           ELSE [st |-> "ok", arr |-> ArrayFromShapeData(shape, range(shape)),
                 msg |-> <<>>]
    ELSE [st |-> "err", arr |-> UnitValue, msg |-> MsgRangeOther]

Value_reverse(x) ==
    IF is_array(x) THEN Array_reverse(x) ELSE [st |-> "ok", arr |-> x]

\* Value::join whose scalar-receiver branches write the promoted receiver
\* back without joining other to it
Value_join_forgets_other(x, other) ==
    IF is_array(x) /\ is_array(other) THEN
        LET r == Array_join(x, other)
        IN [st |-> r.st, self |-> r.arr, msg |-> r.msg]
    ELSE IF is_array(x) THEN
        LET r == Array_join(x, ArrayFromValue(other))
        IN [st |-> r.st, self |-> r.arr, msg |-> r.msg]
    ELSE [st |-> "ok", self |-> ArrayFromValue(x), msg |-> <<>>]

\* the receiver after the call is self; an error of Array::join is returned
\* by `?` before the receiver is written back
Value_join(x, other) ==
    IF is_array(x) /\ is_array(other) THEN
        LET r == Array_join(x, other)
        IN [st |-> r.st, self |-> r.arr, msg |-> r.msg]
    ELSE IF is_array(x) THEN
        LET r == Array_join(x, ArrayFromValue(other))
        IN [st |-> r.st, self |-> r.arr, msg |-> r.msg]
    ELSE IF is_array(other) THEN
        LET r == Array_join(ArrayFromValue(x), other)
        IN IF r.st = "ok" THEN [st |-> "ok", self |-> r.arr, msg |-> <<>>]
           ELSE [st |-> "err", self |-> DefaultValue, msg |-> r.msg]
    ELSE
        LET r == Array_join(ArrayFromValue(x), ArrayFromValue(other))
        IN IF r.st = "ok" THEN [st |-> "ok", self |-> r.arr, msg |-> <<>>]
           ELSE [st |-> "err", self |-> DefaultValue, msg |-> r.msg]

(***************************************************************************)
(* The algorithms as a machine: Init draws a shape and a buffer that       *)
(* satisfies shape.product() == data.len(); one action per function.       *)
(***************************************************************************)
AlgElems == {0, 1, 2}
AlgCmps == {"ord", "coarse"}

ShapesUpTo(rank, dim) == UNION {[1..n -> 0..dim] : n \in 0..rank}

AlgShapes == {s \in ShapesUpTo(MaxRank, MaxDim) : Product(s) <= MaxBuf}

\* the spec's sorting example: shape [3,2], data [[5,1],[2,9],[2,1]]
ExampleShape == <<3, 2>>
ExampleData == <<5, 1, 2, 9, 2, 1>>

\* what an operation returned: an Array, an error message, or the three queries
NoResult ==
    [kind |-> "none", arr |-> UnitValue, msg |-> <<>>, len |-> 0, rank |-> 0,
     shape |-> <<>>]

VIdle ==
    /\ v = UnitValue /\ prev = UnitValue /\ base = UnitValue
    /\ op = [name |-> "init", other |-> UnitValue]
    /\ st = "ok" /\ res = NoResult /\ streak = 0

AlgInit ==
    /\ VIdle
    /\ \/ /\ ashape \in AlgShapes
          /\ adata \in [1..Product(ashape) -> AlgElems]
       \/ /\ ashape = ExampleShape
          /\ adata = ExampleData
    /\ aorig = adata /\ acmp = "" /\ alen = 0 /\ apc = "init" /\ ast = "ok"

CallReverse ==
    /\ apc = "init"
    /\ LET r == reverse(ashape, adata)
       IN adata' = r.data /\ ast' = r.st
    /\ aorig' = adata /\ apc' = "reverse"
    /\ UNCHANGED <<ashape, acmp, alen>>
    /\ UNCHANGED vvars

CallForceLength(len) ==
    /\ apc = "init"
    /\ LET r == force_length(adata, len)
       IN adata' = r.data /\ ast' = r.st
    /\ aorig' = adata /\ apc' = "force_length" /\ alen' = len
    /\ UNCHANGED <<ashape, acmp>>
    /\ UNCHANGED vvars

CallSort(cmp) ==
    /\ apc = "init"
    /\ LET r == sort_array(ashape, adata, cmp)
       IN adata' = r.data /\ ast' = r.st
    /\ aorig' = adata /\ apc' = "sort" /\ acmp' = cmp
    /\ UNCHANGED <<ashape, alen>>
    /\ UNCHANGED vvars

\* sort_array applied to its own output, with the same comparator
CallSortAgain ==
    /\ apc = "sort" /\ ast = "ok"
    /\ LET r == sort_array(ashape, adata, acmp)
       IN adata' = r.data /\ ast' = r.st
    /\ aorig' = adata /\ apc' = "sort2"
    /\ UNCHANGED <<ashape, acmp, alen>>
    /\ UNCHANGED vvars

AlgNext ==
    \/ CallReverse
    \/ \E len \in 0..MaxTarget : CallForceLength(len)
    \/ \E cmp \in AlgCmps : CallSort(cmp)
    \/ CallSortAgain

SpecAlg == AlgInit /\ [][AlgNext]_vars

(***************************************************************************)
(* range as a machine: Init draws the shape, the action applies range.     *)
(***************************************************************************)
RangeInit ==
    /\ VIdle
    /\ ashape \in ShapesUpTo(MaxRank, MaxDim)
    /\ adata = <<>>
    /\ aorig = <<>> /\ acmp = "" /\ alen = 0 /\ apc = "init" /\ ast = "ok"

CallRange ==
    /\ apc = "init"
    /\ adata' = range(ashape)
    /\ apc' = "range" /\ ast' = "ok"
    /\ UNCHANGED <<ashape, aorig, acmp, alen>>
    /\ UNCHANGED vvars

RangeNext == CallRange

SpecRange == RangeInit /\ [][RangeNext]_vars

(***************************************************************************)
(* The Value machine: one receiver Value, an action per method of Value    *)
(* and one for sort_array on the receiver's Array. A panic ends the run.   *)
(***************************************************************************)
VNums ==
    {NaN, F(0 - One), F(0), F(Eps), F(One \div 2), F(One - Eps), F(One),
     F(One + Eps), F(One + 2 * Eps), F(2 * One), F(3 * One),
     F(4 * One + (One \div 2))}

VElems == {NumValue(F(One)), NumValue(F(2 * One)), CharValue(1)}

VShapes == {s \in ShapesUpTo(MaxVRank, MaxVDim) : Product(s) <= MaxVBuf}

VArrays ==
    UNION {{ArrayValue(s, d) : d \in [1..Product(s) -> VElems]} : s \in VShapes}

\* descriptors the enumeration above leaves out: range([2,3]), and axes that
\* are a fraction, zero, negative or NaN
VExtraArrays ==
    {ArrayValue(<<2>>, <<NumValue(F(2 * One)), NumValue(F(3 * One))>>),
     ArrayValue(<<2>>, <<NumValue(F(2 * One)), NumValue(F(One \div 2))>>),
     ArrayValue(<<2>>, <<NumValue(F(0)), NumValue(F(2 * One))>>),
     ArrayValue(<<1>>, <<NumValue(F(0 - One))>>),
     ArrayValue(<<2>>, <<NumValue(F(One + Eps)), NumValue(F(2 * One - Eps))>>),
     ArrayValue(<<1>>, <<NumValue(NaN)>>),
     ArrayValue(<<2>>, <<NumValue(NaN), NumValue(F(2 * One))>>)}

VInputs ==
    {NumValue(f) : f \in VNums} \cup {CharValue(1)} \cup VArrays \cup VExtraArrays

JoinOperands ==
    {NumValue(F(One)), CharValue(1),
     ArrayValue(<<>>, <<NumValue(F(2 * One))>>),
     ArrayValue(<<0>>, <<>>),
     ArrayValue(<<0, 2>>, <<>>),
     ArrayValue(<<2>>, <<NumValue(F(One)), NumValue(F(2 * One))>>),
     ArrayValue(<<1, 2>>, <<NumValue(F(2 * One)), CharValue(1)>>),
     ArrayValue(<<2, 2>>, <<NumValue(F(One)), NumValue(F(One)),
                            NumValue(F(2 * One)), CharValue(1)>>)}

AIdle ==
    /\ ashape = <<>> /\ adata = <<>> /\ aorig = <<>>
    /\ acmp = "" /\ alen = 0 /\ apc = "idle" /\ ast = "ok"

Init ==
    /\ v \in VInputs
    /\ prev = v /\ base = UnitValue /\ streak = 0
    /\ op = [name |-> "init", other |-> UnitValue]
    /\ st = "ok" /\ res = NoResult
    /\ AIdle

Running == st # "panic" /\ st # "ub"

\* Value::range(&self, env)
DoRange ==
    /\ Running
    /\ Len(v.data) <= MaxVBuf
    /\ LET r == Value_range(v)
       IN /\ st' = r.st
          /\ res' = [NoResult EXCEPT !.kind = IF r.st = "ok" THEN "array" ELSE "error",
                                     !.arr = r.arr, !.msg = r.msg]
    /\ v' = v /\ prev' = v
    /\ op' = [name |-> "range", other |-> UnitValue]
    /\ base' = UnitValue /\ streak' = 0
    /\ UNCHANGED avars

\* the caller makes the Array that range returned the next receiver
TakeResult ==
    /\ Running
    /\ res.kind = "array"
    /\ v' = res.arr /\ prev' = v
    /\ st' = "ok" /\ res' = NoResult
    /\ op' = [name |-> "take", other |-> UnitValue]
    /\ base' = UnitValue /\ streak' = 0
    /\ UNCHANGED avars

\* Value::reverse(&mut self)
DoReverse ==
    /\ Running
    /\ LET r == Value_reverse(v)
       IN v' = r.arr /\ st' = r.st
    /\ prev' = v /\ res' = NoResult
    /\ op' = [name |-> "reverse", other |-> UnitValue]
    /\ base' = IF streak = 1 THEN base ELSE v
    /\ streak' = IF streak = 1 THEN 2 ELSE 1
    /\ UNCHANGED avars

\* Value::join(&mut self, other, env)
DoJoin(other) ==
    /\ Running
    /\ Len(v.data) <= MaxJoinBuf
    /\ LET r == Value_join(v, other)
       IN /\ v' = r.self /\ st' = r.st
          /\ res' = [NoResult EXCEPT !.kind = IF r.st = "ok" THEN "none" ELSE "error",
                                     !.msg = r.msg]
    /\ prev' = v
    /\ op' = [name |-> "join", other |-> other]
    /\ base' = UnitValue /\ streak' = 0
    /\ UNCHANGED avars

\* sort_array(&shape, &mut data, cmp) on the receiver's Array
DoSort ==
    /\ Running
    /\ is_array(v)
    /\ LET r == sort_array(v.shape, v.data, "value")
       IN v' = ArrayValue(v.shape, r.data) /\ st' = r.st
    /\ prev' = v /\ res' = NoResult
    /\ op' = [name |-> "sort", other |-> UnitValue]
    /\ base' = UnitValue /\ streak' = 0
    /\ UNCHANGED avars

\* Value::len, Value::rank, Value::shape
DoQuery ==
    /\ Running
    /\ res' = [NoResult EXCEPT !.kind = "query", !.len = Value_len(v),
                               !.rank = Value_rank(v), !.shape = Value_shape(v)]
    /\ v' = v /\ prev' = v /\ st' = "ok"
    /\ op' = [name |-> "query", other |-> UnitValue]
    /\ base' = UnitValue /\ streak' = 0
    /\ UNCHANGED avars

Next ==
    \/ DoRange
    \/ TakeResult
    \/ DoReverse
    \/ \E other \in JoinOperands : DoJoin(other)
    \/ DoSort
    \/ DoQuery

Spec == Init /\ [][Next]_vars

(***************************************************************************)
(* Properties.                                                             *)
(***************************************************************************)
\* the buffer of an Array, and of every Array nested in it, is as long as
\* the product of its shape
RECURSIVE WellFormed(_)
WellFormed(x) ==
    x.tag = "Array" =>
        /\ Len(x.data) = Product(x.shape)
        /\ \A k \in 1..Len(x.data) : WellFormed(x.data[k])

\* C1: after any sequence of range, reverse, sort_array and join calls,
\* successful or failed, on Arrays that satisfy the invariant, the buffer of
\* every Array that exists (the receiver, the operand, the result) is as long
\* as the product of its shape; reverse and sort_array leave the shape and
\* the buffer length as they were.
ShapeInvariantKept ==
    /\ WellFormed(v)
    /\ WellFormed(prev)
    /\ WellFormed(op.other)
    /\ WellFormed(res.arr)
    /\ (op.name \in {"reverse", "sort"} /\ is_array(prev)) =>
           /\ is_array(v)
           /\ v.shape = prev.shape
           /\ Len(v.data) = Len(prev.data)

\* C1 witness: reverse has reordered an Array that an earlier join or range
\* produced
ShapeInvariantKeptWitness ==
    /\ op.name = "reverse" /\ st = "ok"
    /\ v # prev
    /\ Len(v.data) > MaxVBuf

\* a nonnegative whole number i held as a Value
IsIndexValue(x, i) == x.tag = "Num" /\ ~x.num.nan /\ x.num.m = i * One

\* a coordinate tuple: a rank-1 Array of n whole numbers
IsCoordCell(x, n) ==
    /\ x.tag = "Array" /\ x.shape = <<n>> /\ Len(x.data) = n
    /\ \A j \in 1..n : \E c \in 0..MaxDim + 1 : IsIndexValue(x.data[j], c)

Coord(x, j) == x.data[j].num.m \div One

LexLess(a, b, n) ==
    \E j \in 1..n :
        /\ \A k \in 1..(j - 1) : Coord(a, k) = Coord(b, k)
        /\ Coord(a, j) < Coord(b, j)

\* C2: for a shape s with no zero axis range(s) returns product(s) elements;
\* for rank <= 1 element i is the number i; for rank > 1 element i is a rank-1
\* array of rank(s) coordinates, coordinate j being
\* (i mod product(s[j..])) div product(s[j+1..]), so that the elements list
\* every coordinate tuple of s once, in row-major order;
\* range([2,3]) = [0,0],[0,1],[0,2],[1,0],[1,1],[1,2].
RangeRowMajor ==
    (apc = "range" /\ \A j \in 1..Len(ashape) : ashape[j] >= 1) =>
        LET n == Len(ashape)
            len == Product(ashape)
        IN /\ Len(adata) = len
           /\ n <= 1 => \A i \in 0..(len - 1) : IsIndexValue(adata[i + 1], i)
           /\ n > 1 =>
                /\ \A i \in 0..(len - 1) :
                      /\ IsCoordCell(adata[i + 1], n)
                      /\ \A j \in 1..n :
                            /\ Coord(adata[i + 1], j) < ashape[j]
                            /\ Coord(adata[i + 1], j) =
                                 (i % Product(Skip(ashape, j - 1)))
                                     \div Product(Skip(ashape, j))
                /\ \A i \in 1..(len - 1) : LexLess(adata[i], adata[i + 1], n)
           /\ ashape = <<2, 3>> =>
                \A i \in 0..5 :
                    /\ Coord(adata[i + 1], 1) = i \div 3
                    /\ Coord(adata[i + 1], 2) = i % 3

\* C2 witness: range([2,3]) has returned its six cells, the last being [1,2]
RangeRowMajorWitness ==
    /\ apc = "range" /\ ashape = <<2, 3>>
    /\ Len(adata) = 6
    /\ Coord(adata[2], 1) = 0 /\ Coord(adata[2], 2) = 1
    /\ Coord(adata[6], 1) = 1 /\ Coord(adata[6], 2) = 2

\* within epsilon of a whole number that is at least 1
IsNatural(f) ==
    /\ ~f.nan
    /\ \E n \in 1..(MaxVDim + 2) : Abs(f.m - n * One) <= Eps

\* a single natural number, or an array holding only natural numbers
IsRangeDescriptor(x) ==
    \/ x.tag = "Num" /\ IsNatural(x.num)
    \/ /\ x.tag = "Array"
       /\ \A k \in 1..Len(x.data) :
             x.data[k].tag = "Num" /\ IsNatural(x.data[k].num)

\* the message holds the words "natural numbers"
NamesNaturalNumbers(msg) ==
    \E k \in 1..(Len(msg) - 1) : msg[k] = "natural" /\ msg[k + 1] = "numbers"

\* what C3 says of every failed call
RangeErrorShape ==
    (op.name = "range" /\ st # "ok") =>
        /\ res.kind = "error"
        /\ res.arr = UnitValue
        /\ NamesNaturalNumbers(res.msg)
        /\ (v.tag = "Array" /\ Array_is_numbers(v)) => res.msg # MsgRangeNumber
        /\ v.tag = "Num" => res.msg # MsgRangeArray

\* C3: Value.range succeeds if and only if the Value is a single number or
\* an array of numbers and every such number is, within epsilon, an integer
\* that is at least 1; otherwise it returns an error and no Array, the error
\* text of an array descriptor differs from that of a single number, and
\* both name "natural numbers".
RangeSucceedsOnNaturalsOnly ==
    /\ op.name = "range" => (st = "ok" <=> IsRangeDescriptor(v))
    /\ RangeErrorShape

\* C3, leaving NaN out: the verdict of Value.range on descriptors that hold
\* no NaN
RangeVerdictWithoutNaN ==
    /\ (op.name = "range" /\ v.tag = "Num" /\ ~v.num.nan) =>
           (st = "ok" <=> IsRangeDescriptor(v))
    /\ (op.name = "range" /\ v.tag = "Array"
            /\ \A k \in 1..Len(v.data) : ~v.data[k].num.nan) =>
           (st = "ok" <=> IsRangeDescriptor(v))
    /\ (op.name = "range" /\ v.tag \notin {"Num", "Array"}) => st # "ok"
    /\ RangeErrorShape

\* C4: for every array satisfying the shape invariant, of any rank and with
\* zero-length axes too, reverse returns and reverse(reverse(a)) equals a;
\* reverse of an array of rank 0 or of leading length <= 1 leaves the data
\* unchanged; Value.reverse of a Value that is no Array changes nothing.
ReverseInvolution ==
    /\ op.name = "reverse" => st = "ok"
    /\ streak = 2 => v = base
    /\ (op.name = "reverse" /\ (Len(prev.shape) = 0 \/ prev.shape[1] <= 1)) =>
           v = prev

\* C4, on the calls that return: two reverse calls that both return restore
\* the receiver
ReverseInvolutionWhenReturns ==
    /\ (streak = 2 /\ st = "ok") => v = base
    /\ (op.name = "reverse" /\ (Len(prev.shape) = 0 \/ prev.shape[1] <= 1)) =>
           v = prev
    /\ (op.name = "reverse" /\ st # "ok") =>
           /\ st = "panic"
           /\ Len(prev.shape) >= 2 /\ prev.shape[1] >= 2 /\ prev.data = <<>>

\* the length of a Value along its leading axis, 1 for a bare scalar
LeadingLength(x) ==
    IF x.tag = "Array" /\ x.shape # <<>> THEN x.shape[1] ELSE 1

\* C5: whenever Value.join succeeds, for each of the four tag pairs, the
\* receiver is afterwards an Array whose leading-axis length is the sum of
\* the lengths the two operands had, a bare scalar counting as 1.
JoinAddsLengths ==
    (op.name = "join" /\ st = "ok") =>
        /\ v.tag = "Array"
        /\ v.shape # <<>>
        /\ v.shape[1] = LeadingLength(prev) + LeadingLength(op.other)

\* C5 witness: a bare scalar receiver joined with an Array of length 2
JoinAddsLengthsWitness ==
    /\ op.name = "join" /\ st = "ok"
    /\ prev.tag = "Num" /\ op.other.tag = "Array"
    /\ v.shape = <<3>>

\* C6: whenever Value.join returns an error, the receiver equals its value
\* before the call, in all four tag-pair branches.
JoinErrorKeepsReceiver ==
    (op.name = "join" /\ st = "err") => v = prev

\* C6, in the two branches whose receiver is an Array
JoinErrorKeepsArrayReceiver ==
    (op.name = "join" /\ st = "err" /\ is_array(prev)) => v = prev

\* C10: for a Value that is no Array len() is 1, rank() is 0 and shape() is
\* empty; for an Array they are the Array's length, rank and shape, so
\* rank() is the length of shape() and len() is shape()[0] when rank >= 1.
QueriesMatchShape ==
    op.name = "query" =>
        /\ v.tag # "Array" => res.len = 1 /\ res.rank = 0 /\ res.shape = <<>>
        /\ v.tag = "Array" =>
              /\ res.shape = v.shape
              /\ res.rank = Len(res.shape)
              /\ res.rank >= 1 => res.len = res.shape[1]
              /\ res.rank = 0 => res.len = 1

\* C10 witness: the queries of a rank-2 Array of length 2 have returned
QueriesMatchShapeWitness ==
    /\ op.name = "query"
    /\ v.tag = "Array" /\ res.rank = 2 /\ res.len = 2 /\ res.shape = <<2, 2>>

\* the axis-0 cells of a buffer
Cells(data, cell_size) ==
    [k \in 1..(Len(data) \div cell_size) |->
        SubSeq(data, (k - 1) * cell_size + 1, k * cell_size)]

Count(cells, c) == Cardinality({k \in 1..Len(cells) : cells[k] = c})

\* C7: after force_length(data, n) the sequence has length n and its element
\* at each index k < n is the original element at index k mod the original
\* length.
ForceLengthCyclic ==
    apc = "force_length" =>
        /\ Len(adata) = alen
        /\ \A k \in 0..(alen - 1) : adata[k + 1] = aorig[(k % Len(aorig)) + 1]

\* C7, for a sequence that is not empty or a target of 0; the remaining
\* calls panic and leave the sequence empty
ForceLengthCyclicNonEmpty ==
    /\ (apc = "force_length" /\ (aorig # <<>> \/ alen = 0)) =>
           /\ ast = "ok"
           /\ Len(adata) = alen
           /\ \A k \in 0..(alen - 1) : adata[k + 1] = aorig[(k % Len(aorig)) + 1]
    /\ (apc = "force_length" /\ aorig = <<>> /\ alen > 0) =>
           ast = "panic" /\ adata = <<>>

\* the cells of the buffer are a permutation of those of the original buffer
\* and are in non-decreasing order under the lexicographic comparison
SortedPermutation ==
    LET cell_size == Product(Tail(ashape))
        now == Cells(adata, cell_size)
        was == Cells(aorig, cell_size)
    IN /\ Len(now) = Len(was)
       /\ \A k \in 1..Len(was) : Count(now, was[k]) = Count(was, was[k])
       /\ \A k \in 1..(Len(now) - 1) :
             cell_ordering(acmp, now[k], now[k + 1]) # "Greater"

\* C8: for every array of rank >= 1 and every comparator, sort_array returns
\* with the axis-0 cells a permutation of the original cells, each kept as a
\* block, in non-decreasing lexicographic order; shape [3,2] data
\* [[5,1],[2,9],[2,1]] becomes [[2,1],[2,9],[5,1]]; for rank 0 the data is
\* unchanged.
SortOrdersCells ==
    apc = "sort" =>
        /\ ast = "ok"
        /\ ashape = <<>> => adata = aorig
        /\ ashape # <<>> => SortedPermutation
        /\ (aorig = ExampleData /\ ashape = ExampleShape /\ acmp = "ord") =>
               adata = <<2, 1, 2, 9, 5, 1>>

\* C8, on the calls that return; the others are the arrays of rank >= 1
\* with no cell or with cells of size 0
SortOrdersCellsWhenReturns ==
    /\ (apc = "sort" /\ ast = "ok") =>
           /\ ashape = <<>> => adata = aorig
           /\ ashape # <<>> => SortedPermutation
           /\ (aorig = ExampleData /\ ashape = ExampleShape /\ acmp = "ord") =>
                  adata = <<2, 1, 2, 9, 5, 1>>
    /\ (apc = "sort" /\ ast # "ok") =>
           /\ ast = "panic" /\ adata = aorig
           /\ ashape # <<>> /\ Product(ashape) = 0

\* C9: sort_array is idempotent: applied with the same comparator to an
\* array that is its own output it yields the same array, also when the
\* comparator reports distinct cells as equal.
SortIdempotent ==
    apc = "sort2" => (ast = "ok" /\ adata = aorig)

\* C9, for the comparator under which only identical elements are equal
SortIdempotentWithoutTies ==
    (apc = "sort2" /\ acmp = "ord") => (ast = "ok" /\ adata = aorig)

\* the c = shape[0] axis-0 cells of a buffer, each of z = product(shape[1..])
\* elements
CellsOf(shape, data) ==
    LET z == Product(Tail(shape))
    IN [k \in 1..shape[1] |-> SubSeq(data, (k - 1) * z + 1, k * z)]

\* C11: for every array of rank >= 1 with c axis-0 cells of size z, after
\* reverse the cell at position i is the original cell at position c-1-i
\* for every i < c, the z elements of each cell in their original order;
\* the blocks that a swap exchanges never overlap.
ReverseMovesCells ==
    (apc = "reverse" /\ ashape # <<>>) =>
        LET c == ashape[1]
            z == Product(Tail(ashape))
        IN /\ ast # "ub"
           /\ Len(adata) = Len(aorig)
           /\ \A i \in 0..(c - 1) : \A e \in 1..z :
                 adata[i * z + e] = aorig[(c - 1 - i) * z + e]
           /\ CellsOf(ashape, adata) =
                 [k \in 1..c |-> CellsOf(ashape, aorig)[c + 1 - k]]

\* C11 witness: reverse has exchanged the first and the last of three cells
\* of two elements each, which differ
ReverseMovesCellsWitness ==
    /\ apc = "reverse" /\ ast = "ok"
    /\ ashape = <<3, 2>>
    /\ SubSeq(adata, 1, 2) = SubSeq(aorig, 5, 6)
    /\ SubSeq(adata, 1, 2) # SubSeq(aorig, 1, 2)
    /\ aorig[1] # aorig[2]

\* the cells of a sequence of cells that compare Equal to cell c, in order
TiedWith(cmp, cells, c) ==
    LET tied(x) == cell_ordering(cmp, x, c) = "Equal"
    IN SelectSeq(cells, tied)

Reversed(seq) == [k \in 1..Len(seq) |-> seq[Len(seq) + 1 - k]]

\* C12: in sort_array a tie between two cells in a merge emits the cell of
\* the right-hand run first; so for every input the cells that compare equal
\* under the lexicographic comparator come out in the reverse of the order
\* they had in the input.
SortReversesTies ==
    (apc \in {"sort", "sort2"} /\ ashape # <<>>) =>
        LET now == CellsOf(ashape, adata)
            was == CellsOf(ashape, aorig)
        IN /\ Len(now) = Len(was)
           /\ \A k \in 1..Len(was) :
                 TiedWith(acmp, now, was[k]) = Reversed(TiedWith(acmp, was, was[k]))
           /\ (Len(was) = 2
                 /\ cell_ordering(acmp, was[1], was[2]) = "Equal") =>
                     now = <<was[2], was[1]>>

\* C12 witness: three cells of two elements that all tie under the
\* comparator, given as [0,2],[0,2],[1,2] and returned as [1,2],[0,2],[0,2]
SortReversesTiesWitness ==
    /\ apc = "sort" /\ ast = "ok" /\ acmp = "coarse"
    /\ ashape = <<3, 2>>
    /\ aorig = <<0, 2, 0, 2, 1, 2>>
    /\ adata = <<1, 2, 0, 2, 0, 2>>

\* C13: for every shape and data satisfying the shape invariant, a
\* zero-length leading axis and a zero cell size included, sort_array runs
\* to completion and returns: the cell count is not computed by dividing by
\* a chunk size of 0, assert_ne!(cells, 0) holds, and the merge buffer has
\* the length of the data when it is copied back.
SortReturnsNormally ==
    (apc = "sort" /\ Len(aorig) = Product(ashape)) =>
        /\ ashape # <<>> =>
              /\ Product(Tail(ashape)) # 0
              /\ Len(aorig) \div Product(Tail(ashape)) # 0
        /\ ast = "ok"
        /\ Len(adata) = Len(aorig)

\* C13, for the arrays of rank 0 and those that hold at least one element;
\* on the others, the arrays of rank >= 1 with no element, the call panics
SortReturnsOnNonEmpty ==
    /\ (apc = "sort" /\ (ashape = <<>> \/ Product(ashape) > 0)) =>
           ast = "ok" /\ Len(adata) = Len(aorig)
    /\ (apc = "sort" /\ ashape # <<>> /\ Product(ashape) = 0) =>
           ast = "panic" /\ adata = aorig

====
